---- MODULE Spec2Model ----
(***************************************************************************)
(* ResAtlas: the reservation store (the SQLite schema), the client-side    *)
(* date-time validator isValidDateTime and the client call getReservations.*)
(*                                                                         *)
(* Strings the code inspects character by character (date-times, phone     *)
(* numbers) are sequences of one-character strings, so that the regular    *)
(* expression, the GLOB patterns, split() and Number() are computed.       *)
(***************************************************************************)
EXTENDS Integers, Sequences, FiniteSets, TLC

VARIABLES
    \* ---- the store: one variable per table of the schema
    Customer, Reservation, ReservationV1, ReservationAtTable, Table, TableSet,
    TableInTableSet, Layout, Section, SectionInLayout, TableInSection,
    last,               \* the last statement run against the store and its outcome
    \* ---- the host environment of the client code
    tz,                 \* the host's local time zone (Date works in local time)
    \* ---- one call of isValidDateTime
    dt_str, dt_result,
    \* ---- one call of getReservations
    gr_pc, gr_start, gr_end, gr_requests, gr_response, gr_data, gr_console, gr_outcome

storeVars == <<Customer, Reservation, ReservationV1, ReservationAtTable, Table, TableSet,
               TableInTableSet, Layout, Section, SectionInLayout, TableInSection, last>>
dateVars == <<dt_str, dt_result>>
getVars == <<gr_pc, gr_start, gr_end, gr_requests, gr_response, gr_data, gr_console, gr_outcome>>
vars == <<storeVars, tz, dateVars, getVars>>

\* NULL in a text column; a nullable integer column holds NoId or <<id>>.
NULL == "NULL"

NoId == <<>>

(***************************************************************************)
(* Characters and strings                                                  *)
(***************************************************************************)
Digits == <<"0", "1", "2", "3", "4", "5", "6", "7", "8", "9">>

IsDigit(c) == \E i \in 1..10 : Digits[i] = c

DigitVal(c) == CHOOSE i \in 0..9 : Digits[i + 1] = c

\* Number("0042") = 42 for a string of decimal digits.
RECURSIVE Number(_)
Number(s) ==
    IF Len(s) = 0 THEN 0
    ELSE 10 * Number(SubSeq(s, 1, Len(s) - 1)) + DigitVal(s[Len(s)])

\* str.split(sep): the sequence of the pieces between the occurrences of sep.
RECURSIVE split(_, _)
split(s, sep) ==
    IF \A i \in 1..Len(s) : s[i] # sep THEN <<s>>
    ELSE LET k == CHOOSE i \in 1..Len(s) :
                      s[i] = sep /\ \A j \in 1..(i - 1) : s[j] # sep
         IN  <<SubSeq(s, 1, k - 1)>> \o split(SubSeq(s, k + 1, Len(s)), sep)

\* n written in decimal on w digits, as `${...}` of a zero-padded field.
RECURSIVE Pad(_, _)
Pad(n, w) == IF w = 0 THEN <<>> ELSE Pad(n \div 10, w - 1) \o <<Digits[(n % 10) + 1]>>

\* The text y-m-d<sep>h:mi:s with fields of 4,2,2,2,2,2 digits.
DateTimeText(y, m, d, sep, h, mi, s) ==
    Pad(y, 4) \o <<"-">> \o Pad(m, 2) \o <<"-">> \o Pad(d, 2) \o <<sep>>
        \o Pad(h, 2) \o <<":">> \o Pad(mi, 2) \o <<":">> \o Pad(s, 2)

(***************************************************************************)
(* Calendar arithmetic of the JavaScript Date object (ECMA-262 21.4.1).    *)
(* A time value is kept as minutes since 1970-01-01T00:00 plus the seconds *)
(* field; the offsets of the modelled zones are whole minutes.             *)
(***************************************************************************)
\* MakeDay(year, month, date) for month in 1..12 and any date: the day number.
MakeDay(y, m, d) ==
    LET yy  == IF m <= 2 THEN y - 1 ELSE y
        era == yy \div 400
        yoe == yy - era * 400
        mp  == IF m > 2 THEN m - 3 ELSE m + 9
        doy == (153 * mp + 2) \div 5 + d - 1
        doe == yoe * 365 + yoe \div 4 - yoe \div 100 + doy
    IN  era * 146097 + doe - 719468

\* YearFromTime, MonthFromTime (1..12), DateFromTime of a day number.
CivilFromDay(day) ==
    LET z   == day + 719468
        era == z \div 146097
        doe == z - era * 146097
        yoe == (doe - doe \div 1460 + doe \div 36524 - doe \div 146096) \div 365
        doy == doe - (365 * yoe + yoe \div 4 - yoe \div 100)
        mp  == (5 * doy + 2) \div 153
        d   == doy - (153 * mp + 2) \div 5 + 1
        m   == IF mp < 10 THEN mp + 3 ELSE mp - 9
    IN  [year |-> IF m <= 2 THEN yoe + era * 400 + 1 ELSE yoe + era * 400,
         month |-> m, day |-> d]

\* WeekDay: 0 is Sunday (1970-01-01 was a Thursday).
WeekDay(day) == (day + 4) % 7

\* Day number of the n-th Sunday of month m of year y.
NthSunday(y, m, n) ==
    LET first == MakeDay(y, m, 1)
    IN  first + ((7 - WeekDay(first)) % 7) + 7 * (n - 1)

(***************************************************************************)
(* The host's local time zone.  "UTC" has no transitions.                  *)
(* "America/New_York" (rules in force since 2007): UTC-5, and UTC-4 from   *)
(* 02:00 local on the second Sunday of March to 02:00 local on the first   *)
(* Sunday of November.                                                     *)
(***************************************************************************)
Zones == {"UTC", "America/New_York"}

StdOffset(zone) == IF zone = "UTC" THEN 0 ELSE 0 - 300

ObservesDST(zone) == zone = "America/New_York"

\* The offset (minutes east of UTC) in force at the UTC instant u.
OffsetAtUTC(zone, u) ==
    IF ~ObservesDST(zone) THEN StdOffset(zone)
    ELSE LET y     == CivilFromDay(u \div 1440).year
             start == NthSunday(y, 3, 2) * 1440 + 120 - StdOffset(zone)
             end   == NthSunday(y, 11, 1) * 1440 + 120 - (StdOffset(zone) + 60)
         IN  IF start <= u /\ u < end THEN StdOffset(zone) + 60 ELSE StdOffset(zone)

\* LocalTime(t) of ECMA-262.
LocalTime(zone, u) == u + OffsetAtUTC(zone, u)

\* UTC(t) of ECMA-262: a local time that occurs twice is the earlier instant, a
\* local time that is skipped is read with the offset before the transition.
UTCOfLocal(zone, l) ==
    LET dst == l - (StdOffset(zone) + 60)
        std == l - StdOffset(zone)
    IN  IF ObservesDST(zone) /\ LocalTime(zone, dst) = l THEN dst ELSE std

\* A Number that may be NaN (the getters of an Invalid Date).
NaN == [nan |-> TRUE, v |-> 0]

Num(n) == [nan |-> FALSE, v |-> n]

\* a === n for a Number a and an integer n: NaN equals nothing.
StrictEquals(a, n) == ~a.nan /\ a.v = n

InvalidDate == [invalid |-> TRUE, t |-> 0, sec |-> 0]

\* new Date(text) for a text that matched the validator's pattern and passed its
\* range checks (V8, the engine of the Electron shell): the date-time form
\* without offset is local time; a day of 1..31 beyond the month's end rolls
\* over into the next month, any other day gives an Invalid Date.
NewDate(zone, y, m, d, h, mi, s) ==
    IF d < 1 \/ d > 31 THEN InvalidDate
    ELSE [invalid |-> FALSE,
          t |-> UTCOfLocal(zone, MakeDay(y, m, d) * 1440 + h * 60 + mi), sec |-> s]

getFullYear(zone, date) ==
    IF date.invalid THEN NaN
    ELSE Num(CivilFromDay(LocalTime(zone, date.t) \div 1440).year)

\* getMonth() + 1
getMonthPlus1(zone, date) ==
    IF date.invalid THEN NaN
    ELSE Num(CivilFromDay(LocalTime(zone, date.t) \div 1440).month)

getDate(zone, date) ==
    IF date.invalid THEN NaN
    ELSE Num(CivilFromDay(LocalTime(zone, date.t) \div 1440).day)

getHours(zone, date) ==
    IF date.invalid THEN NaN ELSE Num((LocalTime(zone, date.t) % 1440) \div 60)

getMinutes(zone, date) ==
    IF date.invalid THEN NaN ELSE Num(LocalTime(zone, date.t) % 60)

getSeconds(zone, date) == IF date.invalid THEN NaN ELSE Num(date.sec)

(***************************************************************************)
(* isValidDateTime                                                         *)
(***************************************************************************)
\* /^\d{4}-\d{2}-\d{2}T\d{2}:\d{2}:\d{2}$/ , "d" standing for \d
DateTimeRegex ==
    <<"d", "d", "d", "d", "-", "d", "d", "-", "d", "d", "T",
      "d", "d", ":", "d", "d", ":", "d", "d">>

RegexTest(str) ==
    /\ Len(str) = Len(DateTimeRegex)
    /\ \A i \in 1..Len(DateTimeRegex) :
          IF DateTimeRegex[i] = "d" THEN IsDigit(str[i]) ELSE str[i] = DateTimeRegex[i]

isQuarterHour(minutes) == minutes % 15 = 0

isValidDateTime(zone, str) ==
    IF ~RegexTest(str) THEN FALSE
    ELSE
      LET datePart == split(str, "T")[1]
          timePart == split(str, "T")[2]
          year     == Number(split(datePart, "-")[1])
          month    == Number(split(datePart, "-")[2])
          day      == Number(split(datePart, "-")[3])
          hour     == Number(split(timePart, ":")[1])
          minute   == Number(split(timePart, ":")[2])
          second   == Number(split(timePart, ":")[3])
      IN
        IF month < 1 \/ month > 12 THEN FALSE
        ELSE IF hour < 0 \/ hour > 23 THEN FALSE
        ELSE IF minute < 0 \/ minute > 59 \/ ~isQuarterHour(minute) THEN FALSE
        ELSE IF second # 0 THEN FALSE
        ELSE
          LET date == NewDate(zone, year, month, day, hour, minute, second)
          IN  /\ StrictEquals(getFullYear(zone, date), year)
              /\ StrictEquals(getMonthPlus1(zone, date), month)
              /\ StrictEquals(getDate(zone, date), day)
              /\ StrictEquals(getHours(zone, date), hour)
              /\ StrictEquals(getMinutes(zone, date), minute)
              /\ StrictEquals(getSeconds(zone, date), second)

(***************************************************************************)
(* The store: SQLite with PRAGMA foreign_keys = ON.  An INSERT that        *)
(* violates a constraint of its table fails and changes nothing; `last'    *)
(* records the statement and the constraints it violated.                  *)
(***************************************************************************)
\* GLOB patterns are sequences of tokens: a literal character or the class [0-9].
\* None of the schema's patterns holds * or ?, so a match is position by position.
D == "[0-9]"

GlobMatch(str, pattern) ==
    /\ Len(str) = Len(pattern)
    /\ \A i \in 1..Len(pattern) :
          IF pattern[i] = D THEN IsDigit(str[i]) ELSE str[i] = pattern[i]

LENGTH(str) == Len(str)

Attempt(op, row, violated) == [op |-> op, row |-> row, violated |-> violated]

\* ---- Customer
\* '([0-9][0-9][0-9]) [0-9][0-9][0-9]-[0-9][0-9][0-9][0-9]'
PhoneGlob == <<"(", D, D, D, ")", " ", D, D, D, "-", D, D, D, D>>

CustomerCheck(row) ==
    /\ LENGTH(row.phone_number) = 14
    /\ GlobMatch(row.phone_number, PhoneGlob)

\* UNIQUE (phone_number) alone: the names left out of the key.
CustomerUniqueOnPhoneOnly(row, rows) ==
    \A c \in rows : c.phone_number # row.phone_number

\* UNIQUE (first_name, last_name, phone_number)
CustomerUnique(row, rows) ==
    \A c \in rows : ~(/\ c.first_name = row.first_name
                      /\ c.last_name = row.last_name
                      /\ c.phone_number = row.phone_number)

CustomerViolations(row) ==
    {k \in {"PRIMARY KEY", "CHECK", "UNIQUE"} :
        \/ k = "PRIMARY KEY" /\ \E c \in Customer : c.customer_id = row.customer_id
        \/ k = "CHECK" /\ ~CustomerCheck(row)
        \/ k = "UNIQUE" /\ ~CustomerUnique(row, Customer)}

InsertCustomer(row) ==
    /\ Customer' = IF CustomerViolations(row) = {} THEN Customer \cup {row} ELSE Customer
    /\ last' = Attempt("InsertCustomer", row, CustomerViolations(row))
    /\ UNCHANGED <<Reservation, ReservationV1, ReservationAtTable, Table, TableSet,
                   Layout, Section, SectionInLayout, TableInSection>>
    /\ UNCHANGED <<TableInTableSet, tz, dateVars, getVars>>

\* ---- _Table (and "Table" of the first schema version: the same columns and CHECK)
TableCheck(row) ==
    /\ row.tl_x < row.tr_x
    /\ row.bl_x < row.br_y
    /\ row.tl_y > row.bl_y
    /\ row.tr_y > row.br_y

TableViolations(row) ==
    {k \in {"PRIMARY KEY", "CHECK"} :
        \/ k = "PRIMARY KEY" /\ \E t \in Table : t.table_number = row.table_number
        \/ k = "CHECK" /\ ~TableCheck(row)}

InsertTable(row) ==
    /\ Table' = IF TableViolations(row) = {} THEN Table \cup {row} ELSE Table
    /\ last' = Attempt("InsertTable", row, TableViolations(row))
    /\ UNCHANGED <<Customer, Reservation, ReservationV1, ReservationAtTable, TableSet,
                   Layout, Section, SectionInLayout, TableInSection>>
    /\ UNCHANGED <<TableInTableSet, tz, dateVars, getVars>>

\* ---- TableSet
TableSetViolations(row) ==
    {k \in {"PRIMARY KEY"} : \E t \in TableSet : t.table_set_id = row.table_set_id}

InsertTableSet(row) ==
    /\ TableSet' = IF TableSetViolations(row) = {} THEN TableSet \cup {row} ELSE TableSet
    /\ last' = Attempt("InsertTableSet", row, TableSetViolations(row))
    /\ UNCHANGED <<Customer, Reservation, ReservationV1, ReservationAtTable, Table,
                   Layout, Section, SectionInLayout, TableInSection>>
    /\ UNCHANGED <<TableInTableSet, tz, dateVars, getVars>>

\* ---- TableInTableSet
TableInTableSetViolations(row) ==
    {k \in {"PRIMARY KEY", "FOREIGN KEY"} :
        \/ k = "PRIMARY KEY"
              /\ \E m \in TableInTableSet :
                    /\ m.table_number = row.table_number
                    /\ m.table_set_id = row.table_set_id
        \/ k = "FOREIGN KEY"
              /\ \/ ~\E s \in TableSet : s.table_set_id = row.table_set_id
                 \/ ~\E t \in Table : t.table_number = row.table_number}

InsertTableInTableSet(row) ==
    /\ TableInTableSet' =
          IF TableInTableSetViolations(row) = {} THEN TableInTableSet \cup {row}
          ELSE TableInTableSet
    /\ last' = Attempt("InsertTableInTableSet", row, TableInTableSetViolations(row))
    /\ UNCHANGED <<Customer, Reservation, ReservationV1, ReservationAtTable, Table,
                   TableSet, Layout, Section, SectionInLayout, TableInSection>>
    /\ UNCHANGED <<tz, dateVars, getVars>>

\* DELETE FROM TableInTableSet WHERE table_number = ? AND table_set_id = ?
\* (no table refers to TableInTableSet, so no constraint stops it).
DeleteTableInTableSet(row) ==
    /\ TableInTableSet' =
          {m \in TableInTableSet : ~(/\ m.table_number = row.table_number
                                     /\ m.table_set_id = row.table_set_id)}
    /\ last' = Attempt("DeleteTableInTableSet", row, {})
    /\ UNCHANGED <<Customer, Reservation, ReservationV1, ReservationAtTable, Table,
                   TableSet, Layout, Section, SectionInLayout, TableInSection>>
    /\ UNCHANGED <<tz, dateVars, getVars>>

\* ---- Reservation (second schema version, the target of ReservationAtTable)
\* '[0-9][0-9][0-9][0-9]-[0-9][0-9]-[0-9][0-9] [0-9][0-9]:[0-9][0-9]:[0-9][0-9]'
ReservationGlob ==
    <<D, D, D, D, "-", D, D, "-", D, D, " ", D, D, ":", D, D, ":", D, D>>

ReservationCheck(row) ==
    /\ GlobMatch(row.reservation_datetime, ReservationGlob)
    /\ GlobMatch(row.date_created, ReservationGlob)

\* UNIQUE (customer_id) alone: the date-time left out of the key.
ReservationUniqueOnCustomerOnly(row, rows) ==
    \A r \in rows : r.customer_id # row.customer_id

\* UNIQUE (customer_id, reservation_datetime)
ReservationUnique(row, rows) ==
    \A r \in rows : ~(/\ r.customer_id = row.customer_id
                      /\ r.reservation_datetime = row.reservation_datetime)

\* UNIQUE (reservation_id, reservation_datetime)
ReservationTargetUnique(row, rows) ==
    \A r \in rows : ~(/\ r.reservation_id = row.reservation_id
                      /\ r.reservation_datetime = row.reservation_datetime)

ReservationViolations(row) ==
    {k \in {"PRIMARY KEY", "FOREIGN KEY", "CHECK", "UNIQUE"} :
        \/ k = "PRIMARY KEY" /\ \E r \in Reservation : r.reservation_id = row.reservation_id
        \/ k = "FOREIGN KEY" /\ ~\E c \in Customer : c.customer_id = row.customer_id
        \/ k = "CHECK" /\ ~ReservationCheck(row)
        \/ k = "UNIQUE" /\ ~(/\ ReservationUnique(row, Reservation)
                             /\ ReservationTargetUnique(row, Reservation))}

InsertReservation(row) ==
    /\ Reservation' = IF ReservationViolations(row) = {} THEN Reservation \cup {row}
                      ELSE Reservation
    /\ last' = Attempt("InsertReservation", row, ReservationViolations(row))
    /\ UNCHANGED <<Customer, ReservationV1, ReservationAtTable, Table, TableSet,
                   Layout, Section, SectionInLayout, TableInSection>>
    /\ UNCHANGED <<TableInTableSet, tz, dateVars, getVars>>

\* ---- Reservation (first schema version, with table_set_id)
\* '####-##-## ##:##:##': in a GLOB pattern # is an ordinary character.
ReservationGlobV1 ==
    <<"#", "#", "#", "#", "-", "#", "#", "-", "#", "#", " ",
      "#", "#", ":", "#", "#", ":", "#", "#">>

ReservationCheckV1(row) ==
    /\ GlobMatch(row.reservation_datetime, ReservationGlobV1)
    /\ GlobMatch(row.date_created, ReservationGlobV1)

ReservationViolationsV1(row) ==
    {k \in {"PRIMARY KEY", "FOREIGN KEY", "CHECK", "UNIQUE"} :
        \/ k = "PRIMARY KEY"
              /\ \E r \in ReservationV1 : r.reservation_id = row.reservation_id
        \/ k = "FOREIGN KEY"
              /\ \/ ~\E c \in Customer : c.customer_id = row.customer_id
                 \/ /\ row.table_set_id # NoId
                    /\ ~\E t \in TableSet : t.table_set_id = row.table_set_id[1]
        \/ k = "CHECK" /\ ~ReservationCheckV1(row)
        \/ k = "UNIQUE" /\ ~ReservationUnique(row, ReservationV1)}

InsertReservationV1(row) ==
    /\ ReservationV1' = IF ReservationViolationsV1(row) = {} THEN ReservationV1 \cup {row}
                        ELSE ReservationV1
    /\ last' = Attempt("InsertReservationV1", row, ReservationViolationsV1(row))
    /\ UNCHANGED <<Customer, Reservation, ReservationAtTable, Table, TableSet,
                   Layout, Section, SectionInLayout, TableInSection>>
    /\ UNCHANGED <<TableInTableSet, tz, dateVars, getVars>>

\* ---- ReservationAtTable
ReservationAtTableViolations(row) ==
    {k \in {"PRIMARY KEY", "FOREIGN KEY"} :
        \/ k = "PRIMARY KEY"
              /\ \E a \in ReservationAtTable :
                    /\ a.reservation_id = row.reservation_id
                    /\ a.reservation_datetime = row.reservation_datetime
                    /\ a.table_number = row.table_number
        \/ k = "FOREIGN KEY"
              /\ \/ ~\E r \in Reservation :
                        /\ r.reservation_id = row.reservation_id
                        /\ r.reservation_datetime = row.reservation_datetime
                 \/ ~\E t \in Table : t.table_number = row.table_number}

InsertReservationAtTable(row) ==
    /\ ReservationAtTable' =
          IF ReservationAtTableViolations(row) = {} THEN ReservationAtTable \cup {row}
          ELSE ReservationAtTable
    /\ last' = Attempt("InsertReservationAtTable", row, ReservationAtTableViolations(row))
    /\ UNCHANGED <<Customer, Reservation, ReservationV1, Table, TableSet,
                   Layout, Section, SectionInLayout, TableInSection>>
    /\ UNCHANGED <<TableInTableSet, tz, dateVars, getVars>>

\* ---- Layout, Section
LayoutViolations(row) ==
    {k \in {"PRIMARY KEY"} : \E l \in Layout : l.layout_id = row.layout_id}

InsertLayout(row) ==
    /\ Layout' = IF LayoutViolations(row) = {} THEN Layout \cup {row} ELSE Layout
    /\ last' = Attempt("InsertLayout", row, LayoutViolations(row))
    /\ UNCHANGED <<Customer, Reservation, ReservationV1, ReservationAtTable, Table,
                   TableSet, Section, SectionInLayout, TableInSection>>
    /\ UNCHANGED <<TableInTableSet, tz, dateVars, getVars>>

SectionViolations(row) ==
    {k \in {"PRIMARY KEY"} : \E x \in Section : x.section_id = row.section_id}

InsertSection(row) ==
    /\ Section' = IF SectionViolations(row) = {} THEN Section \cup {row} ELSE Section
    /\ last' = Attempt("InsertSection", row, SectionViolations(row))
    /\ UNCHANGED <<Customer, Reservation, ReservationV1, ReservationAtTable, Table,
                   TableSet, Layout, SectionInLayout, TableInSection>>
    /\ UNCHANGED <<TableInTableSet, tz, dateVars, getVars>>

\* ---- SectionInLayout
\* A primary key of (section_id, layout_id, section_number): the number made part of it.
SectionInLayoutPrimaryKeyWithNumber(row, rows) ==
    \A x \in rows : ~(/\ x.section_id = row.section_id
                      /\ x.layout_id = row.layout_id
                      /\ x.section_number = row.section_number)

\* PRIMARY KEY (section_id, layout_id)
SectionInLayoutPrimaryKey(row, rows) ==
    \A x \in rows : ~(x.section_id = row.section_id /\ x.layout_id = row.layout_id)

\* UNIQUE (layout_id, section_number)
SectionInLayoutUnique(row, rows) ==
    \A x \in rows : ~(x.layout_id = row.layout_id /\ x.section_number = row.section_number)

SectionInLayoutViolations(row) ==
    {k \in {"PRIMARY KEY", "UNIQUE", "FOREIGN KEY"} :
        \/ k = "PRIMARY KEY" /\ ~SectionInLayoutPrimaryKey(row, SectionInLayout)
        \/ k = "UNIQUE" /\ ~SectionInLayoutUnique(row, SectionInLayout)
        \/ k = "FOREIGN KEY"
              /\ \/ ~\E x \in Section : x.section_id = row.section_id
                 \/ ~\E l \in Layout : l.layout_id = row.layout_id}

InsertSectionInLayout(row) ==
    /\ SectionInLayout' =
          IF SectionInLayoutViolations(row) = {} THEN SectionInLayout \cup {row}
          ELSE SectionInLayout
    /\ last' = Attempt("InsertSectionInLayout", row, SectionInLayoutViolations(row))
    /\ UNCHANGED <<Customer, Reservation, ReservationV1, ReservationAtTable, Table,
                   TableSet, Layout, Section, TableInSection>>
    /\ UNCHANGED <<TableInTableSet, tz, dateVars, getVars>>

\* ---- TableInSection
\* PRIMARY KEY (table_number, layout_id, section_number)
TableInSectionPrimaryKey(row, rows) ==
    \A x \in rows : ~(/\ x.table_number = row.table_number
                      /\ x.layout_id = row.layout_id
                      /\ x.section_number = row.section_number)

TableInSectionViolations(row) ==
    {k \in {"PRIMARY KEY", "FOREIGN KEY"} :
        \/ k = "PRIMARY KEY" /\ ~TableInSectionPrimaryKey(row, TableInSection)
        \/ k = "FOREIGN KEY"
              /\ \/ ~\E t \in Table : t.table_number = row.table_number
                 \/ ~\E x \in SectionInLayout :
                        /\ x.layout_id = row.layout_id
                        /\ x.section_number = row.section_number}

InsertTableInSection(row) ==
    /\ TableInSection' =
          IF TableInSectionViolations(row) = {} THEN TableInSection \cup {row}
          ELSE TableInSection
    /\ last' = Attempt("InsertTableInSection", row, TableInSectionViolations(row))
    /\ UNCHANGED <<Customer, Reservation, ReservationV1, ReservationAtTable, Table,
                   TableSet, Layout, Section, SectionInLayout>>
    /\ UNCHANGED <<TableInTableSet, tz, dateVars, getVars>>

(***************************************************************************)
(* One call of isValidDateTime(dt_str) on a host in zone tz.               *)
(***************************************************************************)
CallIsValidDateTime ==
    /\ dt_result = "pending"
    /\ dt_result' = IF isValidDateTime(tz, dt_str) THEN "true" ELSE "false"
    /\ UNCHANGED <<dt_str, tz, storeVars, getVars>>

(***************************************************************************)
(* getReservations(startDateTime, endDateTime): an async function.  gr_pc  *)
(* is its position, gr_requests the requests it has sent to the API,       *)
(* gr_outcome how its promise settled.                                     *)
(***************************************************************************)
\* JavaScript values the call handles: undefined, an Array, an Error by name.
Undefined == [type |-> "undefined", name |-> "", items |-> <<>>]

Array(items) == [type |-> "Array", name |-> "", items |-> items]

Error(name) == [type |-> "Error", name |-> name, items |-> <<>>]

Pending == [state |-> "pending", value |-> Undefined]

Fulfilled(v) == [state |-> "fulfilled", value |-> v]

Rejected(name) == [state |-> "rejected", value |-> Error(name)]

NoResponse == [ok |-> FALSE, status |-> 0, json |-> FALSE, body |-> <<>>]

\* if (!isValidDateTime(start) && !isValidDateTime(end)): both must be bad to throw.
FormatCheckFailsOnlyIfBoth(zone, start, end) ==
    ~isValidDateTime(zone, start) /\ ~isValidDateTime(zone, end)

\* !isValidDateTime(startDateTime) || !isValidDateTime(endDateTime)
FormatCheckFails(zone, start, end) ==
    ~isValidDateTime(zone, start) \/ ~isValidDateTime(zone, end)

\* Lines 23-25: the format check; it throws before the try block is entered.
GrValidate ==
    /\ gr_pc = "validate"
    /\ IF FormatCheckFails(tz, gr_start, gr_end)
       THEN /\ gr_outcome' = Rejected("InvalidDateError")
            /\ gr_pc' = "done"
       ELSE /\ gr_pc' = "fetch"
            /\ UNCHANGED gr_outcome
    /\ UNCHANGED <<gr_start, gr_end, gr_requests, gr_response, gr_data, gr_console>>
    /\ UNCHANGED <<storeVars, tz, dateVars>>

GetReservationsUri(start, end) == [path |-> "/get-reservations",
                                   startDateTime |-> start, endDateTime |-> end]

\* Line 29, the API unreachable: fetch() rejects with a TypeError, which the catch
\* block logs and throws again (lines 38-41).
GrFetchFails ==
    /\ gr_pc = "fetch"
    /\ gr_requests' = Append(gr_requests, GetReservationsUri(gr_start, gr_end))
    /\ gr_console' = Append(gr_console, "TypeError")
    /\ gr_outcome' = Rejected("TypeError")
    /\ gr_pc' = "done"
    /\ UNCHANGED <<gr_start, gr_end, gr_response, gr_data>>
    /\ UNCHANGED <<storeVars, tz, dateVars>>

\* Line 29, the API answers with response resp.
GrFetchResponds(resp) ==
    /\ gr_pc = "fetch"
    /\ gr_requests' = Append(gr_requests, GetReservationsUri(gr_start, gr_end))
    /\ gr_response' = resp
    /\ gr_pc' = "check"
    /\ UNCHANGED <<gr_start, gr_end, gr_data, gr_console, gr_outcome>>
    /\ UNCHANGED <<storeVars, tz, dateVars>>

\* Line 32: a response that is not OK throws an APIError, logged and thrown again.
GrCheckResponse ==
    /\ gr_pc = "check"
    /\ IF ~gr_response.ok
       THEN /\ gr_console' = Append(gr_console, "APIError")
            /\ gr_outcome' = Rejected("APIError")
            /\ gr_pc' = "done"
       ELSE /\ gr_pc' = "json"
            /\ UNCHANGED <<gr_console, gr_outcome>>
    /\ UNCHANGED <<gr_start, gr_end, gr_requests, gr_response, gr_data>>
    /\ UNCHANGED <<storeVars, tz, dateVars>>

\* The function ends after console.log(data) without a return statement.
ReturnValue(data) == Undefined

\* Lines 35-36 and the end of the function: response.json() rejects with a
\* SyntaxError on a body that is not JSON (logged, thrown again); otherwise the
\* data is logged and the function ends.
GrReadJson ==
    /\ gr_pc = "json"
    /\ IF ~gr_response.json
       THEN /\ gr_console' = Append(gr_console, "SyntaxError")
            /\ gr_outcome' = Rejected("SyntaxError")
            /\ UNCHANGED gr_data
       ELSE /\ gr_data' = Array(gr_response.body)
            /\ gr_console' = Append(gr_console, "data")
            /\ gr_outcome' = Fulfilled(ReturnValue(Array(gr_response.body)))
    /\ gr_pc' = "done"
    /\ UNCHANGED <<gr_start, gr_end, gr_requests, gr_response>>
    /\ UNCHANGED <<storeVars, tz, dateVars>>

(***************************************************************************)
(* Bounds and inputs                                                       *)
(***************************************************************************)
MaxCustomers == 3
MaxReservations == 4
MaxSections == 2

\* Date-time texts handed to isValidDateTime: every combination of these fields
\* with either separator, and some texts of another shape.
Years == {2023, 2024}
Months == {0, 1, 2, 3, 12, 13}
Days == {0, 1, 10, 28, 29, 30, 31, 32}
Hours == {0, 2, 23, 24}
Minutes == {0, 15, 30, 45, 20, 60}
Seconds == {0, 1}
Separators == {"T", " "}

Sample == DateTimeText(2024, 6, 1, "T", 18, 0, 0)

OtherShapes ==
    { <<>>,
      SubSeq(Sample, 1, 16),                          \* 2024-06-01T18:00
      SubSeq(Sample, 1, 10),                          \* 2024-06-01
      Sample \o <<"Z">>,                              \* 2024-06-01T18:00:00Z
      <<"x">> \o Sample,
      [Sample EXCEPT ![11] = "t"],                    \* lower-case separator
      [Sample EXCEPT ![3] = "x"],                     \* 20x4-...
      [Sample EXCEPT ![5] = "/", ![8] = "/"] }        \* 2024/06/01T18:00:00

DateTimeInputs ==
    { DateTimeText(y, m, d, sep, h, mi, s) :
        y \in Years, m \in Months, d \in Days, sep \in Separators,
        h \in Hours, mi \in Minutes, s \in Seconds } \cup OtherShapes

\* Arguments of getReservations.
GetInputs ==
    { DateTimeText(2024, 6, 1, "T", 18, 0, 0),
      DateTimeText(2024, 6, 1, "T", 20, 15, 0),
      DateTimeText(2024, 2, 30, "T", 12, 0, 0),
      DateTimeText(2024, 3, 10, "T", 2, 30, 0),
      DateTimeText(2024, 6, 1, " ", 18, 0, 0) }

\* Answers of the reservation API: 200 with a JSON array, 200 with a body that is
\* not JSON, and two statuses that are not OK.
Responses ==
    { [ok |-> TRUE, status |-> 200, json |-> TRUE, body |-> b] :
        b \in {<<>>, <<1>>, <<1, 2>>} }
    \cup { [ok |-> TRUE, status |-> 200, json |-> FALSE, body |-> <<>>] }
    \cup { [ok |-> FALSE, status |-> st, json |-> TRUE, body |-> <<>>] : st \in {400, 500} }

\* Phone numbers.
Phone(a, b, c) ==
    <<"(">> \o Pad(a, 3) \o <<")", " ">> \o Pad(b, 3) \o <<"-">> \o Pad(c, 4)

PhoneInputs ==
    { Phone(555, 123, 4567),
      Phone(555, 987, 6543),
      SubSeq(Phone(555, 123, 4567), 1, 13) }            \* (555) 123-456

NameInputs == { <<"Ann", "Lee">>, <<"Ann", "Kim">>, <<"Bob", "Lee">> }

CustomerInputs ==
    { [customer_id |-> i, first_name |-> n[1], last_name |-> n[2], phone_number |-> p,
       email |-> NULL] :
        i \in 1..MaxCustomers, n \in NameInputs, p \in PhoneInputs }

\* The customers of the specifications about reservations.
BookingCustomers ==
    { [customer_id |-> i, first_name |-> "Ann", last_name |-> "Lee",
       phone_number |-> Phone(555, 123, 4560 + i), email |-> NULL] : i \in {1, 2} }

Created == DateTimeText(2024, 5, 1, " ", 9, 0, 0)

HashText == ReservationGlobV1

ReservationRow(i, c, dt, created, people, highchairs) ==
    [reservation_id |-> i, customer_id |-> c, num_people |-> people,
     reservation_datetime |-> dt, date_created |-> created,
     num_highchairs |-> highchairs, notes |-> NULL]

ReservationRowV1(i, c, dt, created, people, highchairs) ==
    [reservation_id |-> i, customer_id |-> c, num_people |-> people,
     table_set_id |-> NoId, reservation_datetime |-> dt, date_created |-> created,
     num_highchairs |-> highchairs, notes |-> NULL]

ReservationTimes ==
    { DateTimeText(2024, 6, 1, " ", 18, 0, 0),
      DateTimeText(2024, 6, 1, " ", 19, 0, 0),
      DateTimeText(2024, 6, 1, "T", 18, 0, 0),
      HashText }

ReservationInputs ==
    { ReservationRow(i, c, dt, Created, 2, 0) :
        i \in 1..MaxReservations, c \in {1, 2}, dt \in ReservationTimes }

ReservationInputsV1 ==
    { ReservationRowV1(i, c, dt, dt, 2, 0) :
        i \in {1, 2}, c \in {1, 2},
        dt \in {HashText, DateTimeText(2024, 6, 1, " ", 18, 0, 0)} }

\* Parties with no highchair, with as many highchairs as people, and with more
\* (3 highchairs for 2 people), for both versions of the Reservation table.
PartyInputs ==
    { ReservationRow(i, c, DateTimeText(2024, 6, 1, " ", 18, 0, 0), Created, 2, h) :
        i \in {1, 2}, c \in {1, 2}, h \in {0, 2, 3} }

PartyInputsV1 ==
    { ReservationRowV1(i, c, HashText, HashText, 2, h) :
        i \in {1, 2}, c \in {1, 2}, h \in {0, 3} }

\* Tables: number, chairs and the four corners (x, y).
TableRow(n, tl, tr, bl, br) ==
    [table_number |-> n, default_chairs |-> 2, max_chairs |-> 4,
     tl_x |-> tl[1], tl_y |-> tl[2], tr_x |-> tr[1], tr_y |-> tr[2],
     bl_x |-> bl[1], bl_y |-> bl[2], br_x |-> br[1], br_y |-> br[2]]

\* A table the store takes, and Table 1 of the specification's Scenario A.
PlainTable(n) == TableRow(n, <<0, 10>>, <<2, 10>>, <<0, 0>>, <<2, 1>>)

ScenarioATable(n) == TableRow(n, <<0, 10>>, <<2, 10>>, <<0, 0>>, <<2, 0>>)

TableInputs ==
    { TableRow(n, <<0, 10>>, <<trx, 10>>, <<blx, bly>>, <<brx, bry>>) :
        n \in {1, 2}, trx \in {0, 2}, blx \in {0, 1}, bly \in {0, 10},
        brx \in {0, 2}, bry \in {0, 1, 10} }

\* Two tables of 2 (at most 4) and 4 (at most 6) chairs; table sets whose stored
\* figures are those of table 1, of table 2 and of both together; memberships.
SetTables ==
    { PlainTable(1), [PlainTable(2) EXCEPT !.default_chairs = 4, !.max_chairs = 6] }

TableSetInputs ==
    { [table_set_id |-> s, combined_default_chairs |-> f[1], combined_max_chairs |-> f[2]] :
        s \in {1, 2}, f \in {<<2, 4>>, <<4, 6>>, <<6, 10>>} }

TableInTableSetInputs ==
    { [table_number |-> t, table_set_id |-> s] : t \in {1, 2}, s \in {1, 2} }

\* Layouts A and B, sections and their numbers, placements.
LayoutIds == {1, 2}

LayoutInputs == { [layout_id |-> l, layout_common_name |-> NULL] : l \in LayoutIds }

SectionInputs ==
    { [section_id |-> x, section_common_name |-> NULL] : x \in 1..MaxSections }

SectionInLayoutInputs ==
    { [section_id |-> x, layout_id |-> l, section_number |-> n, server_name |-> NULL] :
        x \in 1..MaxSections, l \in LayoutIds, n \in 1..MaxSections }

TableInSectionInputs ==
    { [table_number |-> t, layout_id |-> l, section_number |-> n] :
        t \in {1}, l \in LayoutIds, n \in 1..MaxSections }

\* Assignments of reservations to table 1.
AssignTimes ==
    { DateTimeText(2024, 6, 1, " ", 18, 0, 0),
      DateTimeText(2024, 6, 1, " ", 19, 0, 0),
      DateTimeText(2024, 6, 1, " ", 20, 15, 0) }

AssignReservationInputs ==
    { ReservationRow(i, c, dt, Created, 2, 0) :
        i \in {1, 2}, c \in {1, 2}, dt \in AssignTimes }

ReservationAtTableInputs ==
    { [reservation_id |-> i, reservation_datetime |-> dt, table_number |-> 1] :
        i \in {1, 2}, dt \in AssignTimes }

(***************************************************************************)
(* Specifications                                                          *)
(***************************************************************************)
StoreEmpty ==
    /\ Customer = {} /\ Reservation = {} /\ ReservationV1 = {}
    /\ ReservationAtTable = {} /\ Table = {} /\ TableSet = {} /\ TableInTableSet = {}
    /\ Layout = {} /\ Section = {} /\ SectionInLayout = {} /\ TableInSection = {}
    /\ last = Attempt("none", <<>>, {})

DateIdle == dt_str = <<>> /\ dt_result = "idle"

GetIdle ==
    /\ gr_pc = "idle" /\ gr_start = <<>> /\ gr_end = <<>> /\ gr_requests = <<>>
    /\ gr_response = NoResponse /\ gr_data = Undefined /\ gr_console = <<>>
    /\ gr_outcome = Pending

\* The store alone, on a host whose zone plays no part.
StoreInit == StoreEmpty /\ tz = "UTC" /\ DateIdle /\ GetIdle

\* ---- the customer directory
NextCustomer == \E row \in CustomerInputs : InsertCustomer(row)

SpecCustomer == StoreInit /\ [][NextCustomer]_vars

\* ---- customers and their reservations
NextReservation ==
    \/ \E row \in BookingCustomers : InsertCustomer(row)
    \/ \E row \in ReservationInputs : InsertReservation(row)

SpecReservation == StoreInit /\ [][NextReservation]_vars

\* ---- customers and their reservations, first version of the Reservation table
NextReservationV1 ==
    \/ \E row \in BookingCustomers : InsertCustomer(row)
    \/ \E row \in {[table_set_id |-> 1, combined_default_chairs |-> 2,
                     combined_max_chairs |-> 4]} : InsertTableSet(row)
    \/ \E row \in ReservationInputsV1 : InsertReservationV1(row)
    \/ \E row \in ReservationInputsV1 :
          InsertReservationV1([row EXCEPT !.table_set_id = <<1>>])

SpecReservationV1 == StoreInit /\ [][NextReservationV1]_vars

\* ---- reservations and the highchairs of their parties
NextParty ==
    \/ \E row \in BookingCustomers : InsertCustomer(row)
    \/ \E row \in PartyInputs : InsertReservation(row)
    \/ \E row \in PartyInputsV1 : InsertReservationV1(row)

SpecParty == StoreInit /\ [][NextParty]_vars

\* ---- tables grouped into table sets
NextTableSet ==
    \/ \E row \in SetTables : InsertTable(row)
    \/ \E row \in TableSetInputs : InsertTableSet(row)
    \/ \E row \in TableInTableSetInputs : InsertTableInTableSet(row)
    \/ \E row \in TableInTableSetInputs : DeleteTableInTableSet(row)

SpecTableSet == StoreInit /\ [][NextTableSet]_vars

\* ---- reservations assigned to tables
NextAssign ==
    \/ \E row \in BookingCustomers : InsertCustomer(row)
    \/ \E row \in AssignReservationInputs : InsertReservation(row)
    \/ \E row \in {PlainTable(1), ScenarioATable(1)} : InsertTable(row)
    \/ \E row \in ReservationAtTableInputs : InsertReservationAtTable(row)

SpecAssign == StoreInit /\ [][NextAssign]_vars

\* ---- tables and their geometry
NextTable == \E row \in TableInputs : InsertTable(row)

SpecTable == StoreInit /\ [][NextTable]_vars

\* ---- sections bound to layouts
NextSections ==
    \/ \E row \in LayoutInputs : InsertLayout(row)
    \/ \E row \in SectionInputs : InsertSection(row)
    \/ \E row \in SectionInLayoutInputs : InsertSectionInLayout(row)

SpecSections == StoreInit /\ [][NextSections]_vars

\* ---- tables placed in the sections of layouts
NextLayout ==
    \/ \E row \in LayoutInputs : InsertLayout(row)
    \/ \E row \in SectionInputs : InsertSection(row)
    \/ \E row \in SectionInLayoutInputs : InsertSectionInLayout(row)
    \/ InsertTable(PlainTable(1))
    \/ \E row \in TableInSectionInputs : InsertTableInSection(row)

SpecLayout == StoreInit /\ [][NextLayout]_vars

\* ---- isValidDateTime on every input, in every zone
DateInit ==
    /\ StoreEmpty /\ GetIdle
    /\ tz \in Zones
    /\ dt_str \in DateTimeInputs
    /\ dt_result = "pending"

NextDate == CallIsValidDateTime

SpecDate == DateInit /\ [][NextDate]_vars

\* ---- getReservations on every pair of arguments, in every zone
GetInit ==
    /\ StoreEmpty /\ DateIdle
    /\ tz \in Zones
    /\ gr_start \in GetInputs /\ gr_end \in GetInputs
    /\ gr_pc = "validate" /\ gr_requests = <<>> /\ gr_response = NoResponse
    /\ gr_data = Undefined /\ gr_console = <<>> /\ gr_outcome = Pending

NextGet ==
    \/ GrValidate
    \/ GrFetchFails
    \/ \E resp \in Responses : GrFetchResponds(resp)
    \/ GrCheckResponse
    \/ GrReadJson

SpecGet == GetInit /\ [][NextGet]_vars

(***************************************************************************)
(* Claims                                                                  *)
(***************************************************************************)
\* The service interval of a stored reservation_datetime 'YYYY-MM-DD HH:MM:SS':
\* from the booked minute, for the two hours of the specification's Scenario A.
ServiceMinutes == 2 * 60

ServiceStart(dt) ==
    MakeDay(Number(SubSeq(dt, 1, 4)), Number(SubSeq(dt, 6, 7)), Number(SubSeq(dt, 9, 10)))
        * 1440 + Number(SubSeq(dt, 12, 13)) * 60 + Number(SubSeq(dt, 15, 16))

ServiceEnd(dt) == ServiceStart(dt) + ServiceMinutes

\* start_a < end_b and start_b < end_a
Overlap(a, b) == ServiceStart(a) < ServiceEnd(b) /\ ServiceStart(b) < ServiceEnd(a)

\* C1: no two distinct Reservations assigned to the same Table have overlapping
\* service intervals (an assignment that overlaps one already on the table, the
\* identical reservation_datetime included, is never stored).
C1_NoOverlapOnTable ==
    \A a, b \in ReservationAtTable :
        (a.table_number = b.table_number /\ a.reservation_id # b.reservation_id)
            => ~Overlap(a.reservation_datetime, b.reservation_datetime)

\* C2: within one Layout a Table is placed in at most one Section: no two
\* placements of the same table in the same layout differ in section_number.
C2_OneSectionPerLayout ==
    \A a, b \in TableInSection :
        (a.table_number = b.table_number /\ a.layout_id = b.layout_id)
            => a.section_number = b.section_number

SameSlot(a, b) == a.layout_id = b.layout_id /\ a.section_number = b.section_number

SameBinding(a, b) == a.layout_id = b.layout_id /\ a.section_id = b.section_id

C3_Bindings ==
    \A a, b \in SectionInLayout :
        /\ SameSlot(a, b) => a.section_id = b.section_id
        /\ SameBinding(a, b) => a.section_number = b.section_number

C3_Step ==
    last'.op = "InsertSectionInLayout" =>
        /\ (\E x \in SectionInLayout : SameSlot(x, last'.row) \/ SameBinding(x, last'.row))
              => SectionInLayout' = SectionInLayout
        /\ (/\ \A x \in SectionInLayout :
                  ~SameSlot(x, last'.row) /\ ~SameBinding(x, last'.row)
            /\ "FOREIGN KEY" \notin last'.violated)
              => SectionInLayout' = SectionInLayout \cup {last'.row}

\* C3: every (layout_id, section_number) pair is bound to at most one Section and a
\* Section is bound to a Layout under at most one section_number; an assignment
\* that would break either is rejected and changes nothing, and one that reuses a
\* section_number (or a Section) of another Layout is accepted.
C3_SectionNumbering == [](C3_Bindings) /\ [][C3_Step]_vars

\* C3's case: the same section_number is bound in both layouts, and the last
\* assignment, of another section to a number already taken in its layout, failed
\* on the UNIQUE constraint alone.
C3_Witness ==
    /\ \E a, b \in SectionInLayout :
          a.layout_id # b.layout_id /\ a.section_number = b.section_number
    /\ last.op = "InsertSectionInLayout"
    /\ last.violated = {"UNIQUE"}
    /\ \E x \in SectionInLayout : SameSlot(x, last.row) /\ x.section_id # last.row.section_id

ClaimedGeometry(row) ==
    /\ row.tl_x < row.tr_x
    /\ row.bl_x < row.br_x
    /\ row.tl_y > row.bl_y
    /\ row.tr_y > row.br_y

\* C4: every stored Table satisfies tl.x < tr.x, bl.x < br.x, tl.y > bl.y and
\* tr.y > br.y; creating a Table that violates one of them fails the CHECK and
\* creating one that satisfies all four passes it.
C4_CornerOrdering ==
    /\ \A t \in Table : ClaimedGeometry(t)
    /\ last.op = "InsertTable" => (ClaimedGeometry(last.row) <=> "CHECK" \notin last.violated)

IsLeapYear(y) == y % 4 = 0 /\ (y % 100 # 0 \/ y % 400 = 0)

DaysInMonth(y, m) ==
    IF m = 2 THEN (IF IsLeapYear(y) THEN 29 ELSE 28)
    ELSE IF m \in {4, 6, 9, 11} THEN 30 ELSE 31

\* The form and ranges C5 states, read off the text by position.
ClaimedValid(str) ==
    /\ Len(str) = 19
    /\ \A i \in {1, 2, 3, 4, 6, 7, 9, 10, 12, 13, 15, 16, 18, 19} : IsDigit(str[i])
    /\ str[5] = "-" /\ str[8] = "-" /\ str[11] = "T" /\ str[14] = ":" /\ str[17] = ":"
    /\ Number(SubSeq(str, 6, 7)) \in 1..12
    /\ Number(SubSeq(str, 12, 13)) \in 0..23
    /\ Number(SubSeq(str, 15, 16)) \in {0, 15, 30, 45}
    /\ Number(SubSeq(str, 18, 19)) = 0
    /\ Number(SubSeq(str, 9, 10)) \in
          1..DaysInMonth(Number(SubSeq(str, 1, 4)), Number(SubSeq(str, 6, 7)))

\* C5: isValidDateTime(str) is true exactly when str has the form
\* YYYY-MM-DDTHH:MM:SS with month 1..12, hour 0..23, minute 0, 15, 30 or 45,
\* second 0 and a day that exists in that month and year.
C5_ValidExactlyWhenClaimed ==
    dt_result \in {"true", "false"} => (dt_result = "true" <=> ClaimedValid(dt_str))

\* C6: when start or end is not a valid date-time the call rejects with
\* InvalidDateError and nothing else happens: no request is ever sent to the API,
\* no response is read, and the call is never past its format check.
C6_FormatCheckFirst ==
    (~isValidDateTime(tz, gr_start) \/ ~isValidDateTime(tz, gr_end)) =>
        /\ gr_requests = <<>>
        /\ gr_response = NoResponse
        /\ gr_pc \in {"validate", "done"}
        /\ gr_pc = "done" => gr_outcome = Rejected("InvalidDateError")

\* C6's case: a call with a valid start and an invalid end has ended, rejected
\* with InvalidDateError, having sent nothing.
C6_Witness ==
    /\ isValidDateTime(tz, gr_start) /\ ~isValidDateTime(tz, gr_end)
    /\ gr_pc = "done"
    /\ gr_outcome = Rejected("InvalidDateError")
    /\ gr_requests = <<>>

\* C7: every failing call surfaces one of InvalidDateError, RangeError, APIError,
\* and a call that fails after its request was sent (the API unreachable or
\* answering with a status that is not OK) surfaces APIError.
C7_ThreeErrorKinds ==
    gr_outcome.state = "rejected" =>
        /\ gr_outcome.value.name \in {"InvalidDateError", "RangeError", "APIError"}
        /\ (gr_requests # <<>> /\ ~gr_response.ok) => gr_outcome.value.name = "APIError"

\* C8: when both date-times are valid and the API answers OK with its array of
\* reservations, the call returns that array to its caller.
C8_ReturnsReservations ==
    (gr_pc = "done" /\ gr_response.ok /\ gr_response.json) =>
        gr_outcome = Fulfilled(Array(gr_response.body))

SameTriple(a, b) ==
    /\ a.first_name = b.first_name
    /\ a.last_name = b.last_name
    /\ a.phone_number = b.phone_number

C9_NoDuplicate == \A a, b \in Customer : SameTriple(a, b) => a = b

C9_Step ==
    last'.op = "InsertCustomer" =>
        /\ (\E c \in Customer : SameTriple(c, last'.row)) => Customer' = Customer
        /\ (/\ \A c \in Customer : ~SameTriple(c, last'.row)
            /\ last'.violated \subseteq {"UNIQUE"})
              => Customer' = Customer \cup {last'.row}

\* C9: no two Customer records share (first_name, last_name, phone_number); a
\* creation whose triple equals an existing customer's adds nothing, and one whose
\* triple is new (the phone number of another customer included) is accepted
\* unless its key or its phone format stops it.
C9_CustomerTriple == [](C9_NoDuplicate) /\ [][C9_Step]_vars

\* C9's case: two customers with the same phone number and different names are
\* stored, and the last creation, under a fresh id with the triple of one of
\* them, failed on the UNIQUE constraint alone.
C9_Witness ==
    /\ \E a, b \in Customer :
          /\ a.phone_number = b.phone_number
          /\ a.last_name # b.last_name \/ a.first_name # b.first_name
    /\ last.op = "InsertCustomer"
    /\ last.violated = {"UNIQUE"}
    /\ \E c \in Customer : SameTriple(c, last.row) /\ c.customer_id # last.row.customer_id

SameBooking(a, b) ==
    /\ a.customer_id = b.customer_id
    /\ a.reservation_datetime = b.reservation_datetime

C10_NoDuplicate == \A a, b \in Reservation : SameBooking(a, b) => a = b

C10_Step ==
    last'.op = "InsertReservation" =>
        /\ (\E r \in Reservation : SameBooking(r, last'.row)) => Reservation' = Reservation
        /\ (/\ \A r \in Reservation : ~SameBooking(r, last'.row)
            /\ last'.violated \subseteq {"UNIQUE"})
              => Reservation' = Reservation \cup {last'.row}

\* C10: no customer holds two Reservations with the identical
\* reservation_datetime; a second reservation of the same customer at the same
\* date-time is rejected and changes nothing, and a reservation of that customer
\* at another date-time, or of another customer at that date-time, is accepted
\* unless its key, its customer reference or its date format stops it.
C10_OneBookingPerSlot == [](C10_NoDuplicate) /\ [][C10_Step]_vars

\* C10's case: one customer holds reservations at two date-times, another
\* customer holds one at one of them, and the last insertion, under a fresh id
\* for a customer and date-time already booked, failed on UNIQUE alone.
C10_Witness ==
    /\ \E a, b, c \in Reservation :
          /\ a.customer_id = b.customer_id
          /\ a.reservation_datetime # b.reservation_datetime
          /\ c.customer_id # a.customer_id
          /\ c.reservation_datetime = a.reservation_datetime
    /\ last.op = "InsertReservation"
    /\ last.violated = {"UNIQUE"}
    /\ \E r \in Reservation : SameBooking(r, last.row)

\* C11: every stored Reservation, of either version of the table, has
\* num_highchairs <= num_people; a reservation with more highchairs than people
\* (3 highchairs for 2 people) is never stored.
C11_HighchairsWithinParty ==
    \A r \in Reservation \cup ReservationV1 : r.num_highchairs <= r.num_people

\* The member Tables of a TableSet, and the sum of one column over them.
Members(s) ==
    {t \in Table : \E m \in TableInTableSet : /\ m.table_set_id = s.table_set_id
                                               /\ m.table_number = t.table_number}

RECURSIVE SumDefaultChairs(_)
SumDefaultChairs(tables) ==
    IF tables = {} THEN 0
    ELSE LET t == CHOOSE x \in tables : TRUE
         IN  t.default_chairs + SumDefaultChairs(tables \ {t})

RECURSIVE SumMaxChairs(_)
SumMaxChairs(tables) ==
    IF tables = {} THEN 0
    ELSE LET t == CHOOSE x \in tables : TRUE
         IN  t.max_chairs + SumMaxChairs(tables \ {t})

C12_HasMember == \A s \in TableSet : Members(s) # {}

C12_SumsMatch ==
    \A s \in TableSet :
        Members(s) # {} =>
            /\ s.combined_default_chairs = SumDefaultChairs(Members(s))
            /\ s.combined_max_chairs = SumMaxChairs(Members(s))

C12_MembershipStep ==
    last'.op \in {"InsertTableInTableSet", "DeleteTableInTableSet"} => C12_SumsMatch'

\* C12: in every reachable state each TableSet has at least one member Table
\* and its combined_default_chairs and combined_max_chairs are the sums of its
\* members' default_chairs and max_chairs; adding or removing a TableInTableSet
\* membership leaves the stored figures equal to those sums.
C12_CombinedChairs ==
    [](C12_HasMember /\ C12_SumsMatch) /\ [][C12_MembershipStep]_vars

\* The CHECK on reservation_datetime of the Reservation table, in either version.
StoreTakesFormat(str) ==
    GlobMatch(str, ReservationGlob) \/ GlobMatch(str, ReservationGlobV1)

\* C13: every string isValidDateTime accepts satisfies the Reservation table's
\* CHECK on reservation_datetime, so a date-time that passed validation is
\* never rejected by the store for its format.
C13_ValidatorAgreesWithStore ==
    dt_result = "true" => StoreTakesFormat(dt_str)

====
